---- MODULE Spec2Model ----
(***************************************************************************)
(* Model of Feature Engineering/Clustering/Binary_Clustering.ipynb:        *)
(* process_live_data_and_cluster and the notebook cells that call it.      *)
(*                                                                         *)
(* Units.  latitude and longitude are integers in thousandths of a degree  *)
(* (34.567 is 34567); a value rounded to 2 decimals is a multiple of 10.   *)
(* acq_date is <<year, month, day>> (the text 'YYYY-MM-DD'); a parsed      *)
(* Timestamp is the day number since 1970-01-01.                           *)
(* A table is a sequence of rows, a row a function from column names.      *)
(***************************************************************************)
EXTENDS Integers, Sequences, FiniteSets, TLC

VARIABLES
  pc,           \* "idle", "loaded" (a table is read), "returned", "raised"
  calls,        \* the calls made so far
  original_df,  \* the caller's table, the argument of the call
  returned,     \* the table the last completed call returned
  clusterer,    \* the clusterer the last call built (a local of that call)
  coordinate,   \* a latitude or longitude value and its successive roundings
  pipe,         \* the pipeline: not fitted, or what fit learned
  prediction,   \* what the last pipe.predict gave
  evaluation    \* the evaluation cell: y_test, y_pred and what it printed

----------------------------------------------------------------------------
(* Arithmetic helpers *)

Max(a, b) == IF a >= b THEN a ELSE b

Min(a, b) == IF a <= b THEN a ELSE b

RECURSIVE SqrtIter(_, _)
SqrtIter(n, x) ==
  LET y == (x + n \div x) \div 2
  IN  IF y >= x THEN x ELSE SqrtIter(n, y)

\* floor of the square root (Newton's iteration from above)
ISqrt(n) == IF n <= 0 THEN 0 ELSE SqrtIter(n, n)

\* the function f with its values computed once
Tabulated(f) == CHOOSE g \in {f} : g = f

RECURSIVE SumOver(_, _)
SumOver(f, S) ==
  IF S = {} THEN 0
  ELSE f[CHOOSE y \in S : TRUE] + SumOver(f, S \ {CHOOSE y \in S : TRUE})

\* the least element of a non-empty set of integers
SetMin(S) == CHOOSE x \in S : \A y \in S : x <= y

----------------------------------------------------------------------------
(* pandas: Series.round(2), numpy's round-half-to-even on the hundredths   *)

\* a round-up written as floor + 1: a value already on the hundredths moves
ceil_plus_one(v) == 10 * (v \div 10 + 1)

Round2(v) ==
  LET q == v \div 10          \* floor division
      r == v % 10             \* 0..9
  IN  IF r < 5 THEN 10 * q
      ELSE IF r > 5 THEN 10 * (q + 1)
      ELSE IF q % 2 = 0 THEN 10 * q ELSE 10 * (q + 1)

----------------------------------------------------------------------------
(* pandas: to_datetime, .dt.month, .dt.weekofyear (proleptic Gregorian)    *)

\* day number of the civil date y-m-d, 1970-01-01 being day 0
to_datetime(date) ==
  LET y   == IF date[2] <= 2 THEN date[1] - 1 ELSE date[1]
      era == y \div 400
      yoe == y - era * 400
      mp  == IF date[2] > 2 THEN date[2] - 3 ELSE date[2] + 9
      doy == (153 * mp + 2) \div 5 + date[3] - 1
      doe == yoe * 365 + yoe \div 4 - yoe \div 100 + doy
  IN  era * 146097 + doe - 719468

\* <<year, month, day>> of a day number
civil(ts) ==
  LET z   == ts + 719468
      era == z \div 146097
      doe == z - era * 146097
      yoe == (doe - doe \div 1460 + doe \div 36524 - doe \div 146096) \div 365
      doy == doe - (365 * yoe + yoe \div 4 - yoe \div 100)
      mp  == (5 * doy + 2) \div 153
      d   == doy - (153 * mp + 2) \div 5 + 1
      m   == IF mp < 10 THEN mp + 3 ELSE mp - 9
      y   == yoe + era * 400 + (IF m <= 2 THEN 1 ELSE 0)
  IN  <<y, m, d>>

dt_month(ts) == civil(ts)[2]

\* weeks counted in sevens from 1 January: (day of the year - 1) // 7 + 1
week_from_new_year(ts) ==
  (ts - to_datetime(<<civil(ts)[1], 1, 1>>)) \div 7 + 1

\* ISO 8601 week number: the week of the year that holds this week's Thursday
dt_weekofyear(ts) ==
  LET wd   == (ts + 3) % 7                \* Monday = 0
      thu  == ts - wd + 3
      jan1 == to_datetime(<<civil(thu)[1], 1, 1>>)
  IN  (thu - jan1) \div 7 + 1

----------------------------------------------------------------------------
(* hdbscan.HDBSCAN(min_cluster_size, min_samples).fit(X).labels_           *)
(*                                                                         *)
(* The library is not part of the repository; it is modelled by the        *)
(* HDBSCAN* algorithm it implements, with the defaults the call leaves     *)
(* alone (metric euclidean, alpha 1.0, cluster_selection_method 'eom',     *)
(* allow_single_cluster False):                                            *)
(*   core distance of a point: distance to its min_samples-th nearest      *)
(*     other point, min_samples first clamped to the number of rows - 1;   *)
(*   mutual reachability d(a,b) = max(core(a), core(b), dist(a,b));        *)
(*   the single-linkage hierarchy over d, read top-down by level sets: a   *)
(*     component splits where its last connecting level is removed;        *)
(*   the condensed tree: a piece smaller than min_cluster_size falls out   *)
(*     of its cluster, two or more larger pieces are new clusters;         *)
(*   stability = sum over points of (lambda_leave - lambda_birth), with    *)
(*     lambda = 1/distance (infinite at distance 0); excess-of-mass        *)
(*     selection bottom-up, the root never selected;                       *)
(*   a point's label is its nearest selected ancestor, or -1 (noise).      *)
(* X is a sequence of points, a point a sequence of integers.  Points      *)
(* with equal coordinates are handled together as one site with a weight.  *)
(* Squared distances are exact integers; lambda is fixed-point.            *)
(***************************************************************************)

min_cluster_size == 50

min_samples == 20

RECURSIVE SqDist(_, _)
SqDist(p, q) ==
  IF Len(p) = 0 THEN 0
  ELSE (Head(p) - Head(q)) * (Head(p) - Head(q)) + SqDist(Tail(p), Tail(q))

Sites(X) == {X[i] : i \in DOMAIN X}

Weights(X) == [s \in Sites(X) |-> Cardinality({i \in DOMAIN X : X[i] = s})]

\* hdbscan(): min_samples = min(size - 1, min_samples); 0 becomes 1
EffectiveMinSamples(size, ms) ==
  IF Min(size - 1, ms) = 0 THEN 1 ELSE Min(size - 1, ms)

\* squared core distance of every site: the smallest radius that holds the
\* point itself and k others
CoreSq(w, k) ==
  [s \in DOMAIN w |->
     SetMin({D \in {SqDist(s, t) : t \in DOMAIN w} :
               SumOver(w, {t \in DOMAIN w : SqDist(s, t) <= D}) >= k + 1})]

\* squared mutual reachability distance between two points at sites s and t
\* (two distinct points of one site are at distance 0 of each other)
MutualReachSq(core, s, t) == Max(Max(core[s], core[t]), SqDist(s, t))

Linked(core, s, t, T, strict) ==
  IF strict THEN MutualReachSq(core, s, t) < T
  ELSE MutualReachSq(core, s, t) <= T

\* the sites of C reachable from the set R by links of level < T (strict)
\* or <= T
RECURSIVE Reach(_, _, _, _, _)
Grow(core, C, R, more, T, strict) ==
  IF more = {} THEN R ELSE Reach(core, C, R \cup more, T, strict)

Reach(core, C, R, T, strict) ==
  Grow(core, C, R,
       {t \in C \ R : \E s \in R : Linked(core, s, t, T, strict)}, T, strict)

\* the level at which component C becomes connected: the largest link of
\* its minimum spanning tree
FormLevel(core, C) ==
  SetMin({T \in {core[s] : s \in C}
                \cup {MutualReachSq(core, s, t) : s \in C, t \in C} :
            Reach(core, C, {CHOOSE s \in C : TRUE}, T, FALSE) = C})

\* the pieces of C that stay connected just below level T; the sites whose
\* core distance is T are in no piece: their points leave one by one
Pieces(core, C, T) ==
  {Reach(core, {t \in C : core[t] < T}, {s}, T, TRUE) :
     s \in {t \in C : core[t] < T}}

\* the pieces that are large enough to be clusters
BigPieces(core, w, mcs, C, T) ==
  {P \in Pieces(core, C, T) : SumOver(w, P) >= mcs}

\* lambda = 1 / distance, in units of 1e-5 per degree; distance 0 is INFTY
Lambda(T) ==
  IF T = 0 THEN [inf |-> TRUE, fin |-> 0]
  ELSE [inf |-> FALSE, fin |-> 100000000 \div ISqrt(100 * T)]

\* a > b over stabilities that may be infinite
StabGT(a, b) ==
  IF b.inf THEN FALSE ELSE IF a.inf THEN TRUE ELSE a.fin > b.fin

StabAdd(a, b) == [inf |-> a.inf \/ b.inf, fin |-> a.fin + b.fin]

StabZero == [inf |-> FALSE, fin |-> 0]

RECURSIVE StabSum(_, _)
StabSum(f, S) ==
  IF S = {} THEN StabZero
  ELSE StabAdd(f[CHOOSE y \in S : TRUE].stab,
               StabSum(f, S \ {CHOOSE y \in S : TRUE}))

\* (lam - birth) * size, lam possibly infinite, birth finite
Excess(lam, birth, size) ==
  IF lam.inf THEN [inf |-> size > 0, fin |-> 0]
  ELSE [inf |-> FALSE, fin |-> (lam.fin - birth) * size]

\* excess of mass: a cluster is kept unless its children are more stable
Select(own, kids, all) ==
  IF StabGT(StabSum(kids, DOMAIN kids), own)
  THEN [stab |-> StabSum(kids, DOMAIN kids),
        sel  |-> UNION {kids[P].sel : P \in DOMAIN kids}]
  ELSE [stab |-> own, sel |-> {all}]

\* One cluster of the condensed tree, followed from the component C it
\* currently is: born at lambda = birth as the sites all, with acc the
\* stability it has gathered so far.  The result is the stability the
\* subtree passes up and the clusters selected in it (sets of sites).
RECURSIVE ClusterTree(_, _, _, _, _, _, _)
Split(core, w, mcs, C, birth, acc, all, lam, big) ==
  IF Cardinality(big) >= 2
  THEN Select(StabAdd(acc, Excess(lam, birth, SumOver(w, C))),
              Tabulated([P \in big |->
                           ClusterTree(core, w, mcs, P, lam.fin, StabZero, P)]),
              all)
  ELSE IF Cardinality(big) = 1
  THEN ClusterTree(core, w, mcs, CHOOSE P \in big : TRUE, birth,
                   StabAdd(acc,
                           Excess(lam, birth,
                                  SumOver(w, C)
                                  - SumOver(w, CHOOSE P \in big : TRUE))),
                   all)
  ELSE [stab |-> StabAdd(acc, Excess(lam, birth, SumOver(w, C))),
        sel  |-> {all}]

SplitAt(core, w, mcs, C, birth, acc, all, T) ==
  Split(core, w, mcs, C, birth, acc, all, Lambda(T),
        BigPieces(core, w, mcs, C, T))

ClusterTree(core, w, mcs, C, birth, acc, all) ==
  SplitAt(core, w, mcs, C, birth, acc, all, FormLevel(core, C))

\* The root cluster (all the points) is never selected: what falls out of
\* it is noise, and the selection is that of its children, if it has any.
RECURSIVE RootSelection(_, _, _, _)
RootSplit(core, w, mcs, lam, big) ==
  IF Cardinality(big) >= 2
  THEN UNION {ClusterTree(core, w, mcs, P, lam.fin, StabZero, P).sel :
                P \in big}
  ELSE IF Cardinality(big) = 1
  THEN RootSelection(core, w, mcs, CHOOSE P \in big : TRUE)
  ELSE {}

RootSplitAt(core, w, mcs, C, T) ==
  RootSplit(core, w, mcs, Lambda(T), BigPieces(core, w, mcs, C, T))

RootSelection(core, w, mcs, C) ==
  RootSplitAt(core, w, mcs, C, FormLevel(core, C))

\* the selected clusters, as sets of sites
SelectedIn(w, mcs, k) ==
  RootSelection(Tabulated(CoreSq(w, k)), w, mcs, DOMAIN w)

SelectedClusters(X, mcs, ms) ==
  SelectedIn(Tabulated(Weights(X)), mcs, EffectiveMinSamples(Len(X), ms))

\* the first row of every selected cluster
FirstRows(X, sel) ==
  [c \in sel |-> SetMin({i \in DOMAIN X : X[i] \in c})]

\* labels_: selected clusters are numbered 0, 1, ... (here by their first
\* row; the numbering is arbitrary and relative to the batch), noise is -1
SiteLabels(X, sel, first) ==
  [s \in Sites(X) |->
     IF \E c \in sel : s \in c
     THEN Cardinality({d \in sel :
                         first[d] < first[CHOOSE c \in sel : s \in c]})
     ELSE -1]

LabelsOf(X, sel) ==
  SiteLabels(X, sel, Tabulated(FirstRows(X, sel)))

RowLabels(X, label) == [i \in DOMAIN X |-> label[X[i]]]

hdbscan_labels(X, mcs, ms) ==
  RowLabels(X, Tabulated(LabelsOf(X, SelectedClusters(X, mcs, ms))))

----------------------------------------------------------------------------
(* pandas tables *)

\* df[col] = value (one row): the column is added when it is new
WithColumn(row, col, v) ==
  [c \in DOMAIN row \cup {col} |-> IF c = col THEN v ELSE row[c]]

\* df.drop(columns=cols) (one row)
WithoutColumns(row, cols) == [c \in DOMAIN row \ cols |-> row[c]]

\* df = original_df: the caller's own table under a second name
alias(table) == [shared |-> TRUE, rows |-> table]

\* original_df.copy(): a new table holding the same values; shared tells
\* whether the result is the caller's own object
copy(table) == [shared |-> FALSE, rows |-> table]

\* Series.map({'T': 'Terra', 'A': 'Aqua'}): a code the dict lacks is lost
map_codes(code) ==
  IF code = "T" THEN "Terra" ELSE IF code = "A" THEN "Aqua" ELSE "nan"

\* Series.replace({'T': 'Terra', 'A': 'Aqua'}): whole values, not substrings
replace(code) ==
  IF code = "T" THEN "Terra" ELSE IF code = "A" THEN "Aqua" ELSE code

\* drop(columns=['acq_date']): acq_time is forgotten
DroppedDateOnly == {"acq_date"}

\* drop(columns=['acq_date', 'acq_time', 'confidence'])
DroppedWithConfidence == {"acq_date", "acq_time", "confidence"}

\* the columns dropped after the date features are derived
DroppedColumns == {"acq_date", "acq_time"}

\* df[['latitude', 'longitude', 'brightness']]
ClusterColumnsWithBrightness == <<"latitude", "longitude", "brightness">>

\* df[['latitude', 'longitude']]: the columns handed to the clusterer
ClusterColumns == <<"latitude", "longitude">>

\* hdbscan.HDBSCAN(): the library's defaults, min_cluster_size 5 and
\* min_samples equal to it
HDBSCAN_defaults(mcs, ms) ==
  [min_cluster_size |-> 5, min_samples |-> 5, labels_ |-> <<>>]

\* hdbscan.HDBSCAN(min_cluster_size=51, ...): the threshold one too high
HDBSCAN_above(mcs, ms) ==
  [min_cluster_size |-> mcs + 1, min_samples |-> ms, labels_ |-> <<>>]

\* hdbscan.HDBSCAN(min_cluster_size=.., min_samples=..): not yet fitted
HDBSCAN(mcs, ms) ==
  [min_cluster_size |-> mcs, min_samples |-> ms, labels_ |-> <<>>]

\* clusterer.fit(X) raises ValueError on a table with no row (check_array)
\* and on a single row, which has no nearest other point to measure a core
\* distance to
fit_raises(X) == Len(X) <= 1

\* a clusterer kept from the call before and fitted only once: a batch of
\* the same length gets the labels of the earlier batch
fit_once(c, X) ==
  IF Len(clusterer.labels_) = Len(X) THEN clusterer
  ELSE [c EXCEPT
          !.labels_ = hdbscan_labels(X, c.min_cluster_size, c.min_samples)]

\* clusterer.fit(X): always clusters X anew
fit(c, X) ==
  [c EXCEPT !.labels_ = hdbscan_labels(X, c.min_cluster_size, c.min_samples)]

\* lambda x: x > 0: the first cluster, 0, counts as noise
binary_positive(x) == IF x > 0 THEN TRUE ELSE FALSE

\* lambda x: False if x == -1 else True
binary(x) == IF x = -1 THEN FALSE ELSE TRUE

\* df['acq_date'] = pd.to_datetime(df['acq_date'])
parse_dates(df) ==
  [i \in DOMAIN df |->
     WithColumn(df[i], "acq_date", to_datetime(df[i]["acq_date"]))]

\* df['satellite'] = df['satellite'].replace({'T':'Terra', 'A': 'Aqua'})
rename_satellites(df) ==
  [i \in DOMAIN df |->
     WithColumn(df[i], "satellite", replace(df[i]["satellite"]))]

\* values that are not numbers: text in a coordinate column
NonNumeric == {"abc", ""}

is_numeric(v) == ToString(v) \notin {ToString(t) : t \in NonNumeric}

\* Series.round(2) raises TypeError on a column that holds a value that is
\* not a number (the column has dtype object)
round_raises(df) ==
  \E i \in DOMAIN df :
    ~is_numeric(df[i]["latitude"]) \/ ~is_numeric(df[i]["longitude"])

\* the two round(2) statements left out
keep_coordinates(df) == df

\* df['latitude'] = df['latitude'].round(2), and the same for longitude
round_coordinates(df) ==
  [i \in DOMAIN df |->
     WithColumn(WithColumn(df[i], "latitude", Round2(df[i]["latitude"])),
                "longitude", Round2(df[i]["longitude"]))]

\* df['month'] = df['acq_date'].dt.month
\* df['week'] = df['acq_date'].dt.weekofyear
add_month_week(df) ==
  [i \in DOMAIN df |->
     WithColumn(WithColumn(df[i], "month", dt_month(df[i]["acq_date"])),
                "week", dt_weekofyear(df[i]["acq_date"]))]

\* df.drop(columns=['acq_date', 'acq_time'], inplace=True)
drop_timestamps(df) ==
  [i \in DOMAIN df |-> WithoutColumns(df[i], DroppedColumns)]

\* the statements before the clustering, in the order of the source
preprocess(df) ==
  drop_timestamps(add_month_week(round_coordinates(
    rename_satellites(parse_dates(df)))))

\* df[['latitude','longitude']] as the points handed to fit
select_points(df) ==
  Tabulated([i \in DOMAIN df |->
               [j \in DOMAIN ClusterColumns |-> df[i][ClusterColumns[j]]]])

\* df['clusters'] = clusterer.fit(...).labels_
assign_labels(df, labels) ==
  [i \in DOMAIN df |-> WithColumn(df[i], "clusters", labels[i])]

\* the apply is left out: the raw labels stay
keep_labels(df) == df

\* df['clusters'] = df['clusters'].apply(lambda ...)
apply_binary(df) ==
  [i \in DOMAIN df |-> WithColumn(df[i], "clusters", binary(df[i]["clusters"]))]

\* the call from the clustering on: fitted is the clusterer fit returned
cluster_and_return(df, fitted, shared, arg) ==
  [raised    |-> FALSE,
   df        |-> Tabulated(apply_binary(assign_labels(df, fitted.labels_))),
   clusterer |-> fitted,
   argument  |-> IF shared
                 THEN apply_binary(assign_labels(df, fitted.labels_))
                 ELSE arg]

cluster(df, X, new, shared, arg) ==
  IF fit_raises(X)
  THEN [raised    |-> TRUE,
        df        |-> <<>>,
        clusterer |-> new,
        argument  |-> IF shared THEN df ELSE arg]
  ELSE cluster_and_return(df, fit(new, X), shared, arg)

\* try: ... except: return df around the rounding: the failure is swallowed
\* and the table comes back as far as it got
returns_partial(df0, arg) ==
  [raised    |-> FALSE,
   df        |-> rename_satellites(parse_dates(df0.rows)),
   clusterer |-> HDBSCAN(min_cluster_size, min_samples),
   argument  |-> arg]

\* the call when round(2) raises on line 35: lines 33 and 34 have run, no
\* clusterer is built, nothing is returned
round_failed(df0, arg) ==
  [raised    |-> TRUE,
   df        |-> <<>>,
   clusterer |-> HDBSCAN(min_cluster_size, min_samples),
   argument  |-> IF df0.shared
                 THEN rename_satellites(parse_dates(df0.rows))
                 ELSE arg]

process_copy(df0, arg) ==
  IF round_raises(df0.rows)
  THEN round_failed(df0, arg)
  ELSE cluster(Tabulated(preprocess(df0.rows)),
               select_points(preprocess(df0.rows)),
               HDBSCAN(min_cluster_size, min_samples), df0.shared, arg)

\* process_live_data_and_cluster(original_df), statement by statement; arg
\* is the caller's table.  The result tells whether the call raised, the
\* table it returned, the clusterer it built, and the caller's table as the
\* call leaves it.
process_live_data_and_cluster(arg) == process_copy(copy(arg), arg)

----------------------------------------------------------------------------
(* The tables the notebook reads (read_pickle, read_csv).  A table is laid  *)
(* out as groups of rows at raw sites; a variant fills the other columns.  *)

NumVariants == 2

\* raw coordinates; sites 1 and 2 round to the same 2-decimal place
RawSites ==
  << <<34567, -118123>>, <<34572, -118118>>, <<35004, -118001>>,
     <<36250, -117000>>, <<34800, -118100>>, <<33125, -116455>> >>

\* <<site, number of rows>> groups
Layouts ==
  { <<>>,
    << <<1, 1>> >>,
    << <<1, 1>>, <<3, 1>>, <<4, 1>>, <<5, 1>>, <<6, 1>> >>,
    << <<1, 10>>, <<3, 10>>, <<4, 10>> >>,
    << <<1, 24>>, <<3, 24>> >>,
    << <<6, 49>> >>,
    << <<1, 50>>, <<3, 50>> >>,
    << <<1, 50>>, <<2, 50>> >>,
    << <<3, 100>> >>,
    << <<1, 50>>, <<5, 1>>, <<3, 50>>, <<4, 1>> >>,
    << <<1, 25>>, <<4, 50>>, <<2, 25>>, <<3, 50>> >>,
    << <<6, 2>>, <<1, 60>>, <<5, 25>>, <<3, 60>>, <<4, 50>> >> }

RECURSIVE GroupSites(_)
GroupSites(layout) ==
  IF layout = <<>> THEN <<>>
  ELSE [i \in 1..layout[1][2] |-> layout[1][1]] \o GroupSites(Tail(layout))

Satellites == <<"T", "A", "N", "Terra", "Aqua">>

Dates ==
  << <<2020, 1, 5>>, <<2019, 12, 30>>, <<2021, 1, 1>>, <<2020, 12, 31>>,
     <<2019, 7, 15>>, <<2020, 2, 29>> >>

Times == <<"1200", "0435", "2359", "0000">>

RawRow(site, i, v) ==
  [latitude   |-> RawSites[site][1],
   longitude  |-> RawSites[site][2],
   acq_date   |-> Dates[((i * v) % Len(Dates)) + 1],
   acq_time   |-> Times[((i + v) % Len(Times)) + 1],
   satellite  |-> Satellites[((i + v) % Len(Satellites)) + 1],
   daynight   |-> IF (i \div v) % 2 = 0 THEN "D" ELSE "N",
   brightness |-> 3000 + 150 * ((site * v) % 4),
   track      |-> 10 + (i % 3),
   scan       |-> 10 + ((i + v) % 4),
   bright_t31 |-> 2900 + 10 * ((i * v) % 5),
   frp        |-> 5 * v + (i % 7),
   confidence |-> (37 * i + v) % 101]

TableAt(sites, v) == [i \in 1..Len(sites) |-> RawRow(sites[i], i, v)]

RawTable(layout, v) == TableAt(GroupSites(layout), v)

Tables == {RawTable(l, v) : l \in Layouts, v \in 1..NumVariants}

----------------------------------------------------------------------------
(* The notebook as a state machine *)

\* the notebook calls process_live_data_and_cluster for X_train, X_test
\* and modis
MaxCalls == 3

\* the state of the transform and of its caller
transform_vars == <<pc, calls, original_df, returned, clusterer>>

\* the state of the other cells
cell_vars == <<coordinate, pipe, prediction, evaluation>>

vars == <<pc, calls, original_df, returned, clusterer,
          coordinate, pipe, prediction, evaluation>>

\* nothing rounded, fitted, predicted or printed yet
NoCoordinate == [raw |-> 0, rounded |-> <<>>]

NotFitted == [fitted |-> FALSE]

NoPrediction == [raised |-> FALSE, rows |-> 0, unknown |-> {}]

NoEvaluation ==
  [y_test |-> <<>>, y_pred_proba |-> <<>>, y_pred |-> <<>>, printed |-> <<>>]

\* the notebook before its first cell has run
Fresh ==
  /\ pc = "idle"
  /\ calls = 0
  /\ original_df = <<>>
  /\ returned = <<>>
  /\ clusterer = HDBSCAN(min_cluster_size, min_samples)
  /\ coordinate = NoCoordinate
  /\ pipe = NotFitted
  /\ prediction = NoPrediction
  /\ evaluation = NoEvaluation

Init == Fresh

\* pd.read_pickle(...) / pd.read_csv(...): the caller gets a table
read_table ==
  /\ pc # "loaded"
  /\ calls < MaxCalls
  /\ \E t \in Tables : original_df' = t
  /\ pc' = "loaded"
  /\ UNCHANGED <<calls, returned, clusterer>>
  /\ UNCHANGED cell_vars

\* X = process_live_data_and_cluster(table); a call that raises assigns
\* nothing
call_process ==
  /\ pc = "loaded"
  /\ \E r \in {process_live_data_and_cluster(original_df)} :
       /\ pc' = IF r.raised THEN "raised" ELSE "returned"
       /\ returned' = IF r.raised THEN returned ELSE r.df
       /\ clusterer' = r.clusterer
       /\ original_df' = r.argument
  /\ calls' = calls + 1
  /\ UNCHANGED cell_vars

Next == read_table \/ call_process

Spec == Init /\ [][Next]_vars

----------------------------------------------------------------------------
(* The pipeline: make_column_transformer((OneHotEncoder(), ohe_features),   *)
(* (StandardScaler(), scale_features), remainder='drop') followed by a      *)
(* DecisionTreeClassifier.  The encoder is the part that can refuse a       *)
(* table: it is built with handle_unknown='error'.  The scaler and the tree *)
(* accept any numeric row; the tree's splits and the classes it predicts    *)
(* are not modelled, a prediction is the number of rows predicted.          *)

ohe_features == <<"satellite", "daynight", "month", "week", "clusters">>

scale_features == <<"brightness", "track", "scan", "bright_t31", "frp">>

Range(seq) == {seq[i] : i \in DOMAIN seq}

\* OneHotEncoder().fit(X[ohe_features]).categories_: per feature, the values
\* that occur in X
OneHotEncoder_fit(X) ==
  [f \in Range(ohe_features) |-> {X[i][f] : i \in DOMAIN X}]

\* the features in which X has a value that fit has not seen
unknown_categories(categories_, X) ==
  {f \in Range(ohe_features) : \E i \in DOMAIN X : X[i][f] \notin categories_[f]}

\* pipe.fit(X_train, y_train)
pipe_fit(X) == [fitted |-> TRUE, categories_ |-> OneHotEncoder_fit(X)]

\* pipe.predict(X): the encoder's transform raises ValueError on a value it
\* has not seen (handle_unknown='error'); otherwise one prediction per row
pipe_predict(p, X) ==
  IF unknown_categories(p.categories_, X) # {}
  THEN [raised |-> TRUE, rows |-> 0,
        unknown |-> unknown_categories(p.categories_, X)]
  ELSE [raised |-> FALSE, rows |-> Len(X), unknown |-> {}]

\* pipe.fit(X_train, y_train) on a table the transform returned
fit_pipe ==
  /\ pc = "returned"
  /\ ~pipe.fitted
  /\ pipe' = pipe_fit(returned)
  /\ pc' = "fitted"
  /\ UNCHANGED <<calls, original_df, returned, clusterer>>
  /\ UNCHANGED <<coordinate, prediction, evaluation>>

\* pipe.predict(X_test), pipe.predict(modis)
predict ==
  /\ pc = "returned"
  /\ pipe.fitted
  /\ prediction' = pipe_predict(pipe, returned)
  /\ pc' = IF prediction'.raised THEN "predict_raised" ELSE "predicted"
  /\ UNCHANGED <<calls, original_df, returned, clusterer>>
  /\ UNCHANGED <<coordinate, pipe, evaluation>>

NextPipe == read_table \/ call_process \/ fit_pipe \/ predict

SpecPipe == Init /\ [][NextPipe]_vars

----------------------------------------------------------------------------
(* Batches of 260 rows: five groups of 50 rows and 10 single rows           *)

\* the places of the five groups
GroupPlaces ==
  << <<34000, -118000>>, <<34200, -118000>>, <<34000, -117800>>,
     <<34200, -117800>>, <<34100, -117700>> >>

\* the single rows lie around this place, in these directions
Centre == <<34100, -117850>>

Directions ==
  << <<100, 0>>, <<-100, 10>>, <<0, 100>>, <<10, -100>>, <<70, 70>>,
     <<-70, 75>>, <<75, -70>>, <<-70, -70>>, <<100, 50>>, <<-50, -100>> >>

\* how far out the single rows lie, in steps of about 0.1 degree
MaxSpread == 6

\* where the two halves of a group lie about the group's place: on it; off
\* it by less than the rounding; one hundredth of a degree apart
Tightness ==
  << << <<0, 0>>, <<0, 0>> >>,
     << <<3, -2>>, <<-4, 4>> >>,
     << <<0, 0>>, <<10, 0>> >> >>

\* places 1..10: the halves of the groups; places 11..20: the single rows
Places(spread, t) ==
  [p \in 1..20 |->
     IF p <= 10
     THEN << GroupPlaces[(p + 1) \div 2][1] + Tightness[t][2 - (p % 2)][1],
             GroupPlaces[(p + 1) \div 2][2] + Tightness[t][2 - (p % 2)][2] >>
     ELSE << Centre[1] + spread * Directions[p - 10][1],
             Centre[2] + spread * Directions[p - 10][2] >>]

\* <<place, number of rows>>: groups first; single rows first; mixed
Orders ==
  << << <<1, 25>>, <<2, 25>>, <<3, 25>>, <<4, 25>>, <<5, 25>>, <<6, 25>>,
        <<7, 25>>, <<8, 25>>, <<9, 25>>, <<10, 25>>, <<11, 1>>, <<12, 1>>,
        <<13, 1>>, <<14, 1>>, <<15, 1>>, <<16, 1>>, <<17, 1>>, <<18, 1>>,
        <<19, 1>>, <<20, 1>> >>,
     << <<11, 1>>, <<12, 1>>, <<13, 1>>, <<14, 1>>, <<15, 1>>, <<16, 1>>,
        <<17, 1>>, <<18, 1>>, <<19, 1>>, <<20, 1>>, <<10, 25>>, <<9, 25>>,
        <<8, 25>>, <<7, 25>>, <<6, 25>>, <<5, 25>>, <<4, 25>>, <<3, 25>>,
        <<2, 25>>, <<1, 25>> >>,
     << <<1, 25>>, <<11, 1>>, <<3, 25>>, <<12, 1>>, <<5, 25>>, <<13, 1>>,
        <<7, 25>>, <<14, 1>>, <<9, 25>>, <<15, 1>>, <<2, 25>>, <<16, 1>>,
        <<4, 25>>, <<17, 1>>, <<6, 25>>, <<18, 1>>, <<8, 25>>, <<19, 1>>,
        <<10, 25>>, <<20, 1>> >> >>

PlacedRow(place, i, v) ==
  [RawRow(1, i, v) EXCEPT !["latitude"] = place[1], !["longitude"] = place[2]]

PlacedTable(places, at, v) ==
  [i \in 1..Len(at) |-> PlacedRow(places[at[i]], i, v)]

GroupedTables ==
  {PlacedTable(Places(spread, t), GroupSites(Orders[o]), v) :
     spread \in 1..MaxSpread, t \in DOMAIN Tightness, o \in DOMAIN Orders,
     v \in 1..NumVariants}

InitGrouped ==
  /\ pc = "loaded"
  /\ calls = 0
  /\ original_df \in GroupedTables
  /\ returned = <<>>
  /\ clusterer = HDBSCAN(min_cluster_size, min_samples)
  /\ coordinate = NoCoordinate
  /\ pipe = NotFitted
  /\ prediction = NoPrediction
  /\ evaluation = NoEvaluation

NextGrouped == call_process

SpecGrouped == InitGrouped /\ [][NextGrouped]_vars

----------------------------------------------------------------------------
(* The evaluation cell.  Labels are 0 and 1; a predicted probability is one *)
(* of the levels 0, 1, 2 (0.0, 0.5, 1.0); a score is the fraction           *)
(* <<numerator, denominator>>.                                              *)

MaxRows == 4

ProbaLevels == 0..2

\* pipe.predict: the class of the larger probability, class 0 on a tie
predict_class(proba) == IF proba > 1 THEN 1 ELSE 0

\* sklearn.metrics.roc_auc_score(y_true, y_score): the share of (positive,
\* negative) pairs that the score orders rightly, a tie counting half
roc_auc_score(y_true, y_score) ==
  << 2 * Cardinality({p \in (DOMAIN y_true) \X (DOMAIN y_true) :
                        /\ y_true[p[1]] = 1 /\ y_true[p[2]] = 0
                        /\ y_score[p[1]] > y_score[p[2]]})
       + Cardinality({p \in (DOMAIN y_true) \X (DOMAIN y_true) :
                        /\ y_true[p[1]] = 1 /\ y_true[p[2]] = 0
                        /\ y_score[p[1]] = y_score[p[2]]}),
     2 * Cardinality({p \in (DOMAIN y_true) \X (DOMAIN y_true) :
                        y_true[p[1]] = 1 /\ y_true[p[2]] = 0}) >>

\* roc_auc_score raises ValueError when y_true holds one class only
roc_auc_raises(y_true) ==
  \/ \A i \in DOMAIN y_true : y_true[i] = 1
  \/ \A i \in DOMAIN y_true : y_true[i] = 0

\* sklearn.metrics.recall_score(y_true, y_pred) = TP / (TP + FN); 0 when
\* there is no positive
recall_score(y_true, y_pred) ==
  IF \A i \in DOMAIN y_true : y_true[i] = 0 THEN <<0, 1>>
  ELSE << Cardinality({i \in DOMAIN y_true : y_true[i] = 1 /\ y_pred[i] = 1}),
          Cardinality({i \in DOMAIN y_true : y_true[i] = 1}) >>

\* y_test, and predict_proba(X_test)[:,1] with the predict(X_test) it gives
InitScore ==
  /\ pc = "evaluate"
  /\ calls = 0
  /\ original_df = <<>>
  /\ returned = <<>>
  /\ clusterer = HDBSCAN(min_cluster_size, min_samples)
  /\ coordinate = NoCoordinate
  /\ pipe = NotFitted
  /\ prediction = NoPrediction
  /\ \E n \in 1..MaxRows :
       \E y \in [1..n -> {0, 1}], y_pred_proba \in [1..n -> ProbaLevels] :
         evaluation =
           [y_test       |-> y,
            y_pred_proba |-> y_pred_proba,
            y_pred       |-> [i \in 1..n |-> predict_class(y_pred_proba[i])],
            printed      |-> <<>>]

\* print('ROC: ', ...); print('f1: ', ...); print('recall: ', ...): the
\* first print raises when roc_auc_score does, and nothing is printed
evaluation_cell ==
  /\ pc = "evaluate"
  /\ IF roc_auc_raises(evaluation.y_test)
     THEN pc' = "evaluation_raised" /\ UNCHANGED evaluation
     ELSE /\ pc' = "printed"
          /\ evaluation' =
               [evaluation EXCEPT !.printed =
                  [ROC    |-> roc_auc_score(evaluation.y_test,
                                            evaluation.y_pred_proba),
                   f1     |-> roc_auc_score(evaluation.y_test,
                                            evaluation.y_pred),
                   recall |-> recall_score(evaluation.y_test,
                                           evaluation.y_pred)]]
  /\ UNCHANGED <<calls, original_df, returned, clusterer>>
  /\ UNCHANGED <<coordinate, pipe, prediction>>

NextScore == evaluation_cell

SpecScore == InitScore /\ [][NextScore]_vars

----------------------------------------------------------------------------
(* Tables with a malformed coordinate: one value of latitude or longitude,  *)
(* in the first or the fiftieth row, is text                                *)

CoordinateColumns == {"latitude", "longitude"}

Corrupted(table, i, c, t) ==
  [table EXCEPT ![i] = [table[i] EXCEPT ![c] = t]]

\* the rows that may hold the text
CorruptedRows == {1, 50}

\* pd.read_csv(...) of a feed with a malformed coordinate
read_malformed ==
  /\ pc # "loaded"
  /\ calls < MaxCalls
  /\ \E table \in Tables, i \in CorruptedRows, c \in CoordinateColumns,
        t \in NonNumeric :
       /\ i \in DOMAIN table
       /\ original_df' = Corrupted(table, i, c, t)
  /\ pc' = "loaded"
  /\ UNCHANGED <<calls, returned, clusterer>>
  /\ UNCHANGED cell_vars

NextMalformed == read_table \/ read_malformed \/ call_process

SpecMalformed == Init /\ [][NextMalformed]_vars

----------------------------------------------------------------------------
(* Series.round(2) on its own: a coordinate rounded, and the result fed     *)
(* back through the rounding step                                           *)

MaxRounds == 2

\* latitudes and longitudes in thousandths of a degree, of both signs, with
\* every last digit and ties after even and after odd hundredths
Coordinates == (34480 .. 34620) \cup (-118180 .. -118040)

InitRound ==
  /\ pc = "round"
  /\ calls = 0
  /\ original_df = <<>>
  /\ returned = <<>>
  /\ clusterer = HDBSCAN(min_cluster_size, min_samples)
  /\ \E v \in Coordinates : coordinate = [raw |-> v, rounded |-> <<>>]
  /\ pipe = NotFitted
  /\ prediction = NoPrediction
  /\ evaluation = NoEvaluation

\* value = value.round(2)
round_step ==
  /\ pc = "round"
  /\ Len(coordinate.rounded) < MaxRounds
  /\ coordinate' =
       [coordinate EXCEPT
          !.rounded = Append(@, Round2(IF @ = <<>> THEN coordinate.raw
                                       ELSE @[Len(@)]))]
  /\ UNCHANGED <<transform_vars, pipe, prediction, evaluation>>

NextRound == round_step

SpecRound == InitRound /\ [][NextRound]_vars

----------------------------------------------------------------------------
(* Properties *)

\* the cluster feature of a returned table, row by row
Membership(df) == [i \in DOMAIN df |-> df[i]["clusters"]]

IsBoolean(v) == ToString(v) \in {"TRUE", "FALSE"}

\* C1: in the table a call returns, every row's cluster feature is
\* (label # -1), label being what the clusterer of that call assigned to
\* the row: every label other than -1 gives TRUE, -1 gives FALSE.
Thm_C1 ==
  pc = "returned" =>
    /\ Len(clusterer.labels_) = Len(returned)
    /\ \A i \in DOMAIN returned :
         returned[i]["clusters"] = (clusterer.labels_[i] # -1)

\* a returned table with noise rows and rows of two different clusters
Wit_C1 ==
  /\ pc = "returned"
  /\ \E i, j, k \in DOMAIN returned :
       /\ clusterer.labels_[i] = -1 /\ returned[i]["clusters"] = FALSE
       /\ clusterer.labels_[j] = 0 /\ returned[j]["clusters"] = TRUE
       /\ clusterer.labels_[k] > 0 /\ returned[k]["clusters"] = TRUE

\* C2: the returned table has a row for every input row, and every row has
\* a cluster feature that is TRUE or FALSE (never a raw cluster label).
Thm_C2 ==
  pc = "returned" =>
    /\ Len(returned) = Len(original_df)
    /\ \A i \in DOMAIN returned :
         /\ "clusters" \in DOMAIN returned[i]
         /\ IsBoolean(returned[i]["clusters"])

\* a returned table in which both values occur
Wit_C2 ==
  /\ pc = "returned"
  /\ \E i, j \in DOMAIN returned :
       returned[i]["clusters"] = TRUE /\ returned[j]["clusters"] = FALSE

NotNoise(labels) == [i \in DOMAIN labels |-> labels[i] # -1]

\* the cluster feature of a batch clustered alone, by a clusterer that has
\* seen no other batch
MembershipAlone(table) ==
  NotNoise(hdbscan_labels(select_points(preprocess(table)),
                          min_cluster_size, min_samples))

\* C4: in any sequence of calls, the cluster feature a call returns for a
\* batch is the one that batch gets when it is clustered alone; nothing of
\* an earlier call (its labels, its fitted clusterer) enters it.
Thm_C4 ==
  pc = "returned" => Membership(returned) = MembershipAlone(original_df)

\* a second or later call that returned clustered rows
Wit_C4 ==
  /\ pc = "returned"
  /\ calls >= 2
  /\ \E i \in DOMAIN returned : returned[i]["clusters"] = TRUE

\* a row with the coordinates of row and fixed values in every other column
BlankRow(row) ==
  [latitude   |-> row["latitude"],
   longitude  |-> row["longitude"],
   acq_date   |-> <<2020, 1, 5>>,
   acq_time   |-> "1200",
   satellite  |-> "T",
   daynight   |-> "D",
   brightness |-> 3000,
   track      |-> 10,
   scan       |-> 10,
   bright_t31 |-> 2900,
   frp        |-> 0,
   confidence |-> 0]

Blank(table) == [i \in DOMAIN table |-> BlankRow(table[i])]

\* C5: the cluster feature depends on latitude and longitude only: a batch
\* gets the cluster feature of the batch with the same coordinates and
\* fixed values in all other columns, so two batches that agree on the
\* coordinates row by row get the same cluster feature.
Thm_C5 ==
  pc = "returned" =>
    Membership(returned)
      = Membership(process_live_data_and_cluster(Blank(original_df)).df)

\* a returned batch with clustered and noise rows whose other columns
\* differ from the fixed values and among the rows
Wit_C5 ==
  /\ pc = "returned"
  /\ \E i, j \in DOMAIN returned :
       /\ returned[i]["clusters"] = TRUE /\ returned[j]["clusters"] = FALSE
       /\ original_df[i]["brightness"] # original_df[j]["brightness"]
       /\ original_df[i]["satellite"] # "T"
  /\ original_df # Blank(original_df)

\* C6: a call leaves the caller's table as it was: same columns, same
\* values.
Thm_C6 == [][pc = "loaded" => original_df' = original_df]_vars

\* after a call that returned: the caller's table still has its timestamp
\* columns, its short satellite codes and its unrounded coordinates, while
\* the returned table has them dropped, renamed and rounded
Wit_C6 ==
  /\ pc = "returned"
  /\ \E i \in DOMAIN original_df :
       /\ DOMAIN original_df[i] \cap {"month", "week", "clusters"} = {}
       /\ {"acq_date", "acq_time"} \subseteq DOMAIN original_df[i]
       /\ original_df[i]["satellite"] = "T"
       /\ returned[i]["satellite"] = "Terra"
       /\ original_df[i]["latitude"] # returned[i]["latitude"]
       /\ original_df[i]["acq_date"] = <<2020, 1, 5>>

\* C8: the returned satellite value is "Terra" for the code "T", "Aqua" for
\* "A" and the input value for any other code; a call raises only on a
\* batch of fewer than 2 rows, never because of a code.
Thm_C8 ==
  /\ pc = "returned" =>
       \A i \in DOMAIN returned :
         returned[i]["satellite"] =
           IF original_df[i]["satellite"] = "T" THEN "Terra"
           ELSE IF original_df[i]["satellite"] = "A" THEN "Aqua"
           ELSE original_df[i]["satellite"]
  /\ pc = "raised" => Len(original_df) < 2

\* a returned batch with rows of code "T", of code "A" and of a code that
\* is not in the mapping
Wit_C8 ==
  /\ pc = "returned"
  /\ \E i, j, k \in DOMAIN returned :
       /\ original_df[i]["satellite"] = "T" /\ returned[i]["satellite"] = "Terra"
       /\ original_df[j]["satellite"] = "A" /\ returned[j]["satellite"] = "Aqua"
       /\ original_df[k]["satellite"] = "N" /\ returned[k]["satellite"] = "N"

\* C9 as claimed: every returned row has the fields cluster_membership,
\* month and week_of_year, and neither acq_date nor acq_time.
Orig_C9 ==
  pc = "returned" =>
    \A i \in DOMAIN returned :
      /\ {"cluster_membership", "month", "week_of_year"}
           \subseteq DOMAIN returned[i]
      /\ DOMAIN returned[i] \cap {"acq_date", "acq_time"} = {}

\* C9 (amended): every returned row has the added columns clusters, month
\* and week (the cluster membership and the week of the year under the names
\* the code gives them), and neither acq_date nor acq_time.
Thm_C9 ==
  pc = "returned" =>
    \A i \in DOMAIN returned :
      /\ {"clusters", "month", "week"} \subseteq DOMAIN returned[i]
      /\ DOMAIN returned[i] \cap {"acq_date", "acq_time"} = {}

\* a returned row whose input row had the timestamp columns and none of
\* the added ones
Wit_C9 ==
  /\ pc = "returned"
  /\ \E i \in DOMAIN returned :
       /\ {"acq_date", "acq_time"} \subseteq DOMAIN original_df[i]
       /\ DOMAIN original_df[i] \cap {"clusters", "month", "week"} = {}
       /\ DOMAIN returned[i]
            = (DOMAIN original_df[i] \ {"acq_date", "acq_time"})
              \cup {"clusters", "month", "week"}

PassThrough ==
  {"daynight", "brightness", "track", "scan", "bright_t31", "frp",
   "confidence"}

\* C10: the returned table has one row per input row, in the input order,
\* and in every row daynight, brightness, track, scan, bright_t31, frp and
\* confidence have the values of that input row.
Thm_C10 ==
  pc = "returned" =>
    /\ Len(returned) = Len(original_df)
    /\ \A i \in DOMAIN returned : \A c \in PassThrough :
         c \in DOMAIN returned[i] /\ returned[i][c] = original_df[i][c]

\* a returned batch whose rows differ in the passed-through columns, so
\* that a change of order would show
Wit_C10 ==
  /\ pc = "returned"
  /\ Len(returned) >= 30
  /\ \E i, j \in DOMAIN returned :
       /\ returned[i]["confidence"] # returned[j]["confidence"]
       /\ returned[i]["daynight"] # returned[j]["daynight"]
       /\ returned[i]["frp"] # returned[j]["frp"]

\* the calendar, from the date as written
IsLeap(y) == (y % 4 = 0 /\ y % 100 # 0) \/ y % 400 = 0

DaysBeforeMonth == <<0, 31, 59, 90, 120, 151, 181, 212, 243, 273, 304, 334>>

DayOfYear(date) ==
  DaysBeforeMonth[date[2]] + date[3]
    + (IF date[2] > 2 /\ IsLeap(date[1]) THEN 1 ELSE 0)

MonthShift == <<0, 3, 2, 5, 0, 3, 5, 1, 4, 6, 2, 4>>

\* Monday = 1 .. Sunday = 7
IsoWeekday(date) ==
  LET y == IF date[2] < 3 THEN date[1] - 1 ELSE date[1]
      w == (y + y \div 4 - y \div 100 + y \div 400
              + MonthShift[date[2]] + date[3]) % 7
  IN  IF w = 0 THEN 7 ELSE w

\* a year has 53 ISO weeks when 1 January is a Thursday, or a Wednesday of
\* a leap year
WeeksInYear(y) ==
  IF \/ IsoWeekday(<<y, 1, 1>>) = 4
     \/ (IsLeap(y) /\ IsoWeekday(<<y, 1, 1>>) = 3)
  THEN 53 ELSE 52

IsoWeek(date) ==
  LET w == (DayOfYear(date) - IsoWeekday(date) + 10) \div 7
  IN  IF w < 1 THEN WeeksInYear(date[1] - 1)
      ELSE IF w > WeeksInYear(date[1]) THEN 1
      ELSE w

\* C11: in every returned row, month is the calendar month of the input
\* row's acq_date and lies in 1..12, week is the ISO week number of that
\* date and lies in 1..53; rows of the same acq_date get the same month and
\* week whatever their acq_time; acq_date 2020-01-05 gives month 1, week 1.
Thm_C11 ==
  pc = "returned" =>
    /\ \A i \in DOMAIN returned :
         /\ returned[i]["month"] = original_df[i]["acq_date"][2]
         /\ returned[i]["month"] \in 1..12
         /\ returned[i]["week"] = IsoWeek(original_df[i]["acq_date"])
         /\ returned[i]["week"] \in 1..53
         /\ original_df[i]["acq_date"] = <<2020, 1, 5>> =>
              returned[i]["month"] = 1 /\ returned[i]["week"] = 1
    /\ \A i, j \in DOMAIN returned :
         original_df[i]["acq_date"] = original_df[j]["acq_date"] =>
           /\ returned[i]["month"] = returned[j]["month"]
           /\ returned[i]["week"] = returned[j]["week"]

\* a returned table with a row of 2020-01-05, two rows of one date and
\* different times, a row of week 53 and a late-December row of week 1
Wit_C11 ==
  /\ pc = "returned"
  /\ \E i, j, k, l \in DOMAIN returned :
       /\ original_df[i]["acq_date"] = <<2020, 1, 5>>
       /\ returned[i]["month"] = 1 /\ returned[i]["week"] = 1
       /\ original_df[j]["acq_date"] = <<2020, 1, 5>>
       /\ original_df[j]["acq_time"] # original_df[i]["acq_time"]
       /\ returned[k]["week"] = 53 /\ returned[k]["month"] = 1
       /\ returned[l]["week"] = 1 /\ returned[l]["month"] = 12

\* C12: rounding to 2 decimals is idempotent: every rounding of a value
\* after the first gives the value the first one gave.
Thm_C12 ==
  \A n \in DOMAIN coordinate.rounded :
    /\ coordinate.rounded[n] = coordinate.rounded[1]
    /\ coordinate.rounded[n] % 10 = 0

\* a value on a tie (5 thousandths), rounded twice, the first rounding
\* having changed it
Wit_C12 ==
  /\ Len(coordinate.rounded) >= 2
  /\ coordinate.raw % 10 = 5
  /\ coordinate.raw < 0
  /\ coordinate.rounded[1] # coordinate.raw
  /\ coordinate.rounded[2] = coordinate.rounded[1]

\* C13: a call on a batch of fewer than 50 rows, whatever the count, does
\* not raise: it returns a table whose cluster feature is FALSE in every
\* row.
Orig_C13 ==
  (pc \in {"returned", "raised"} /\ Len(original_df) < min_cluster_size) =>
    /\ pc = "returned"
    /\ Len(returned) = Len(original_df)
    /\ \A i \in DOMAIN returned : returned[i]["clusters"] = FALSE

\* the call on a table without rows has raised
Wit_C13 ==
  /\ pc = "raised"
  /\ calls >= 1
  /\ original_df = <<>>

\* C14: when the encoder was fitted on a transformed batch whose clusters
\* column has two values (both values occur), every transformed batch, of
\* any size, has in its clusters column only values the encoder has seen,
\* all of them booleans, and no predict fails on an unknown category of
\* clusters.
Thm_C14 ==
  (pipe.fitted /\ pc \in {"returned", "predicted", "predict_raised"}) =>
    (Cardinality(pipe.categories_["clusters"]) = 2 =>
       /\ \A i \in DOMAIN returned :
            returned[i]["clusters"] \in pipe.categories_["clusters"]
       /\ pc = "predict_raised" => "clusters" \notin prediction.unknown
       /\ \A i \in DOMAIN returned : IsBoolean(returned[i]["clusters"]))

\* an encoder fitted on both values has predicted a live batch of 5 rows,
\* all of them noise
Wit_C14 ==
  /\ pipe.fitted
  /\ Cardinality(pipe.categories_["clusters"]) = 2
  /\ pc = "predicted"
  /\ Len(returned) = 5
  /\ prediction.rows = 5
  /\ \A i \in DOMAIN returned : returned[i]["clusters"] = FALSE

\* C16: pipe.predict on a batch the transform returned never fails: it
\* gives one prediction per row, whatever batch the pipeline was fitted on.
Orig_C16 ==
  /\ pc # "predict_raised"
  /\ pc = "predicted" =>
       ~prediction.raised /\ prediction.rows = Len(returned)

\* predict has raised on a value of satellite, month or week that the
\* training batch did not have, the clusters column being known
Wit_C16 ==
  /\ pc = "predict_raised"
  /\ prediction.raised
  /\ prediction.unknown # {}
  /\ "clusters" \notin prediction.unknown

\* the place of a row
PlaceOf(row) == <<row["latitude"], row["longitude"]>>

\* a row of a group: within 0.02 degree of a group's place
Grouped(row) ==
  \E g \in DOMAIN GroupPlaces :
    SqDist(PlaceOf(row), GroupPlaces[g]) <= 20 * 20

\* every single row lies farther from every group than any two groups lie
\* from each other
OutliersFar(table) ==
  \A i \in DOMAIN table :
    ~Grouped(table[i]) =>
      \A g, h, k \in DOMAIN GroupPlaces :
        SqDist(PlaceOf(table[i]), GroupPlaces[g])
          > SqDist(GroupPlaces[h], GroupPlaces[k])

Snapped(table) ==
  [i \in DOMAIN table |->
     [table[i] EXCEPT !["latitude"] = Round2(@), !["longitude"] = Round2(@)]]

\* C17: clustering sees the rounded coordinates only: a batch gets the
\* cluster feature of the batch whose coordinates are the rounded values, so
\* two batches that round to the same coordinates row by row get the same
\* cluster feature.
Thm_C17 ==
  pc = "returned" =>
    /\ Membership(returned)
         = Membership(process_live_data_and_cluster(Snapped(original_df)).df)
    /\ \A i \in DOMAIN returned :
         /\ returned[i]["latitude"] = Round2(original_df[i]["latitude"])
         /\ returned[i]["longitude"] = Round2(original_df[i]["longitude"])

\* a returned batch in which two rows of different raw coordinates round to
\* the same place and are clustered there
Wit_C17 ==
  /\ pc = "returned"
  /\ \E i, j \in DOMAIN returned :
       /\ original_df[i]["latitude"] # original_df[j]["latitude"]
       /\ returned[i]["latitude"] = returned[j]["latitude"]
       /\ returned[i]["longitude"] = returned[j]["longitude"]
       /\ returned[i]["clusters"] = TRUE
       /\ returned[j]["clusters"] = TRUE
  /\ Snapped(original_df) # original_df

\* sklearn.metrics.f1_score(y_true, y_pred) = 2 TP / (2 TP + FP + FN), 0
\* when nothing is positive in either vector
f1_score(y_true, y_pred) ==
  IF \A i \in DOMAIN y_true : y_true[i] = 0 /\ y_pred[i] = 0 THEN <<0, 1>>
  ELSE << 2 * Cardinality({i \in DOMAIN y_true :
                             y_true[i] = 1 /\ y_pred[i] = 1}),
          Cardinality({i \in DOMAIN y_true : y_true[i] = 1})
            + Cardinality({i \in DOMAIN y_true : y_pred[i] = 1}) >>

\* equality of two fractions
SameFraction(a, b) == a[1] * b[2] = b[1] * a[2]

\* C18: the value the evaluation cell prints under 'f1' is the F1 score of
\* y_pred against y_test, 2 TP / (2 TP + FP + FN).
Orig_C18 ==
  pc = "printed" =>
    SameFraction(evaluation.printed["f1"],
                 f1_score(evaluation.y_test, evaluation.y_pred))

\* the cell has printed, under 'f1', 1/2 for predictions whose F1 score is
\* 2/3: y_test = (1, 0), y_pred = (1, 1)
Wit_C18 ==
  /\ pc = "printed"
  /\ evaluation.y_test = <<1, 0>>
  /\ evaluation.y_pred = <<1, 1>>
  /\ SameFraction(evaluation.printed["f1"], <<1, 2>>)
  /\ SameFraction(f1_score(evaluation.y_test, evaluation.y_pred), <<2, 3>>)

HasMalformed(table) ==
  \E i \in DOMAIN table :
    ~is_numeric(table[i]["latitude"]) \/ ~is_numeric(table[i]["longitude"])

\* C19: a call on a table with a non-numeric latitude or longitude raises:
\* the failure reaches the caller, no table is returned (the caller keeps
\* what it had), and the caller's input table is as it was.
Thm_C19 ==
  [][(pc = "loaded" /\ HasMalformed(original_df)) =>
       /\ pc' = "raised"
       /\ returned' = returned
       /\ original_df' = original_df]_vars

\* after a call that returned a table, a call on a malformed table of
\* several rows has raised: the earlier result and the input are intact
Wit_C19 ==
  /\ pc = "raised"
  /\ calls >= 2
  /\ Len(original_df) >= 5
  /\ HasMalformed(original_df)
  /\ returned # <<>>
  /\ \A i \in DOMAIN original_df :
       /\ {"acq_date", "acq_time"} \subseteq DOMAIN original_df[i]
       /\ "clusters" \notin DOMAIN original_df[i]

====
